---- MODULE Spec2Model ----
(***************************************************************************)
(* Model of the SCD Type 2 pipeline of scd_pipeline.py: generate_hash and  *)
(* run_scd_pipeline, statement by statement, over the history relation     *)
(* (TARGET_TABLE) as persisted on disk and as seen inside the run's        *)
(* transaction.                                                            *)
(***************************************************************************)
EXTENDS Integers, Sequences, FiniteSets, TLC

\* ------------------------------------------------------------------ bounds
\* Source rows read over all the runs of one behaviour.
MaxRowsRead == 3
\* Number of pipeline runs in one behaviour.
MaxRuns == 2

\* ------------------------------------------------------------------ values
\* A stored scalar is a pair <<type, text>>: the text of an int is its decimal
\* form, the text of a str is the string itself, as sequences of characters.
IntVal(cs) == <<"int", cs>>
StrVal(cs) == <<"str", cs>>
NULL == <<"null", <<>>>>

\* Python's str() of a stored scalar.
Str(v) ==
  IF v[1] = "null" THEN <<"N", "o", "n", "e">> ELSE v[2]

RECURSIVE Join(_, _)
\* sep.join(parts)
Join(parts, sep) ==
  IF Len(parts) = 0 THEN <<>>
  ELSE IF Len(parts) = 1 THEN parts[1]
  ELSE parts[1] \o sep \o Join(Tail(parts), sep)

\* hashlib.md5(...).hexdigest(), taken as injective on its input.
MD5(s) == <<"md5">> \o s

generate_hash(row, attributes) ==
  MD5(Join([i \in 1..Len(attributes) |-> Str(row[attributes[i]])], <<"-">>))

\* row[attr] raises KeyError for some attr of attrs.
MissingAttr(row, attrs) ==
  \E i \in 1..Len(attrs) : attrs[i] \notin DOMAIN row

\* ------------------------------------------------------------------ inputs
expiry_time == 9999

SrcRow(id, name, price, region) ==
  [id |-> id, product_name |-> name, price |-> price, region |-> region]

\* Rows a source snapshot is made of: one base row, a row whose price has the
\* same text but another type, a monitored change, another key, and two rows
\* without a key that differ in a monitored value.
SourceRowSet ==
  { SrcRow(IntVal(<<"1">>), StrVal(<<"a">>), IntVal(<<"9">>), StrVal(<<"x">>)),
    SrcRow(IntVal(<<"1">>), StrVal(<<"a">>), StrVal(<<"9">>), StrVal(<<"x">>)),
    SrcRow(IntVal(<<"1">>), StrVal(<<"b">>), IntVal(<<"9">>), StrVal(<<"x">>)),
    SrcRow(IntVal(<<"2">>), StrVal(<<"a">>), IntVal(<<"9">>), StrVal(<<"x">>)),
    SrcRow(NULL, StrVal(<<"a">>), IntVal(<<"9">>), StrVal(<<"x">>)),
    SrcRow(NULL, StrVal(<<"b">>), IntVal(<<"9">>), StrVal(<<"x">>)) }

SeqsUpTo(S, n) == UNION { [1..k -> S] : k \in 0..n }

\* The source snapshots of at most n rows.
Snapshots(n) == SeqsUpTo(SourceRowSet, n)

\* The configuration documents a run may load.
GoodConf == [primary_key |-> "id", changing_attributes |-> <<"product_name", "price">>]
Configs ==
  { GoodConf,
    [changing_attributes |-> <<"product_name", "price">>],
    [primary_key |-> "id"],
    [primary_key |-> "sku", changing_attributes |-> <<"product_name", "price">>],
    [primary_key |-> "id", changing_attributes |-> <<"product_name", "colour">>] }

\* The attributes of the source relation.
SourceSchema == {"id", "product_name", "price", "region"}

\* Values of the records generate_hash is applied to on its own: strings with and
\* without the delimiter, and an int and a str with the same text.
HashValues ==
  { StrVal(<<"a">>), StrVal(<<"a", "-", "b">>), StrVal(<<"b">>),
    StrVal(<<"b", "-", "b">>), IntVal(<<"9">>), StrVal(<<"9">>) }
HashRegions == { StrVal(<<"x">>), StrVal(<<"y">>) }
HashRows ==
  { SrcRow(IntVal(<<"1">>), n, p, r) : n \in HashValues, p \in HashValues,
                                       r \in HashRegions }
HashAttrLists ==
  { <<"product_name", "price">>, <<"price", "product_name">>,
    <<"product_name">>, <<"price">> }

\* ------------------------------------------------------------------ state
VARIABLES
  history,        \* TARGET_TABLE as persisted (committed), in rowid order
  work,           \* TARGET_TABLE as the run's connection sees it
  pre,            \* history when the run started
  conf, pk, changing_attrs,
  connected,      \* the run's connection: "no", "open", "closed" or "failed"
  source_rows, idx, tgt_record,
  current_time, clock,
  new_count, changed_count, unchanged_count,
  pc, error, result, runs,
  failure,        \* where the run failed and how many row writes it discarded
  prev_source,    \* the snapshot of the run before this one, if it returned
  same_source,    \* this run extracted the snapshot of prev_source
  rows_read,      \* source rows read since the first run
  h_row_a, h_row_b, h_attrs, h_digest_a, h_digest_b, h_done

hvars == <<h_row_a, h_row_b, h_attrs, h_digest_a, h_digest_b, h_done>>
vars == <<history, work, pre, conf, pk, changing_attrs, connected, source_rows,
          idx, tgt_record, current_time, clock, new_count, changed_count,
          unchanged_count, pc, error, result, runs, failure, prev_source, rows_read,
          same_source, hvars>>

NoRecord == <<>>
NoResult == <<>>
NoFailure == <<>>
NoSource == [returned |-> FALSE, rows |-> <<>>]
\* conf before json.load has returned.
NoConf == [loaded |-> FALSE]

\* ------------------------------------------------------------------ SQL
\* WHERE {pk} = ? AND is_current = 1: the rowids the predicate selects. A
\* comparison with NULL is never true.
CurrentRows(tbl, key, val) ==
  { i \in DOMAIN tbl :
      /\ val # NULL
      /\ tbl[i][key] # NULL
      /\ tbl[i][key] = val
      /\ tbl[i].is_current = 1 }

\* cursor.fetchone() of the lookup: None, or the row_hash column of one of the
\* selected rows (the statement has no ORDER BY).
FetchOne(tbl, key, val) ==
  IF CurrentRows(tbl, key, val) = {} THEN { NoRecord }
  ELSE { <<tbl[i].row_hash>> : i \in CurrentRows(tbl, key, val) }

\* The UPDATE without "AND is_current = 1": every version of the key is touched.
ExpireRows_AllVersions(tbl, key, val, t) ==
  [i \in DOMAIN tbl |->
     IF val # NULL /\ tbl[i][key] # NULL /\ tbl[i][key] = val
     THEN [tbl[i] EXCEPT !.row_end_date = t, !.is_current = 0]
     ELSE tbl[i]]

\* The UPDATE that clears is_current and leaves row_end_date.
ExpireRows_FlagOnly(tbl, key, val, t) ==
  [i \in DOMAIN tbl |->
     IF i \in CurrentRows(tbl, key, val)
     THEN [tbl[i] EXCEPT !.is_current = 0]
     ELSE tbl[i]]

\* UPDATE ... SET row_end_date = ?, is_current = 0 WHERE {pk} = ? AND is_current = 1
ExpireRows(tbl, key, val, t) ==
  [i \in DOMAIN tbl |->
     IF i \in CurrentRows(tbl, key, val)
     THEN [tbl[i] EXCEPT !.row_end_date = t, !.is_current = 0]
     ELSE tbl[i]]

\* The INSERT with a timestamp taken per row, a second after the run's.
InsertRow_OwnTimestamp(tbl, src_row, h, t) ==
  Append(tbl, src_row @@ [row_hash |-> h, row_start_date |-> t + 1,
                           row_end_date |-> expiry_time, is_current |-> 1])

\* The INSERT that leaves the new version closed at once.
InsertRow_NotCurrent(tbl, src_row, h, t) ==
  Append(tbl, src_row @@ [row_hash |-> h, row_start_date |-> t,
                           row_end_date |-> expiry_time, is_current |-> 0])

\* INSERT INTO ... (cols) VALUES (vals): the source row plus the audit columns.
InsertRow(tbl, src_row, h, t) ==
  Append(tbl, src_row @@ [row_hash |-> h, row_start_date |-> t,
                           row_end_date |-> expiry_time, is_current |-> 1])

\* A connection in autocommit mode: every statement is on disk at once.
Rollback_Autocommit(committed, uncommitted) == uncommitted

\* What a connection that ends without commit leaves on disk.
Rollback(committed, uncommitted) == committed

\* ------------------------------------------------------------------ run
\* The validation without its second test.
ConfigInvalid_PrimaryKeyOnly(c) ==
  "primary_key" \notin DOMAIN c

\* The configuration lacks a required field.
ConfigInvalid(c) ==
  \/ "primary_key" \notin DOMAIN c
  \/ "changing_attributes" \notin DOMAIN c

src_row == source_rows[idx]
src_pk_val == src_row[pk]
src_hash == generate_hash(src_row, changing_attrs)

Idle == pc \in {"start", "returned", "failed"}

\* The summary whose total leaves out the unchanged rows.
Summary_WrittenRowsOnly ==
  [new_count |-> new_count, changed_count |-> changed_count,
   unchanged_count |-> unchanged_count,
   total_count |-> new_count + changed_count]

Summary ==
  [new_count |-> new_count, changed_count |-> changed_count,
   unchanged_count |-> unchanged_count, total_count |-> Len(source_rows)]

\* A history with two current versions of key 1, as a writer other than the
\* pipeline can leave it.
CorruptHistory ==
  InsertRow(
    InsertRow(<<>>,
              SrcRow(IntVal(<<"1">>), StrVal(<<"a">>), IntVal(<<"9">>), StrVal(<<"x">>)),
              generate_hash(
                SrcRow(IntVal(<<"1">>), StrVal(<<"a">>), IntVal(<<"9">>), StrVal(<<"x">>)),
                GoodConf.changing_attributes),
              0),
    SrcRow(IntVal(<<"1">>), StrVal(<<"b">>), IntVal(<<"9">>), StrVal(<<"x">>)),
    generate_hash(
      SrcRow(IntVal(<<"1">>), StrVal(<<"b">>), IntVal(<<"9">>), StrVal(<<"x">>)),
      GoodConf.changing_attributes),
    0)

\* Before the first run, with `tbl` as the history relation on disk.
InitWith(tbl) ==
  /\ history = tbl
  /\ work = tbl
  /\ pre = tbl
  /\ conf = NoConf
  /\ pk = ""
  /\ changing_attrs = <<>>
  /\ connected = "no"
  /\ source_rows = <<>>
  /\ idx = 0
  /\ tgt_record = NoRecord
  /\ current_time = 0
  /\ clock = 0
  /\ new_count = 0
  /\ changed_count = 0
  /\ unchanged_count = 0
  /\ pc = "start"
  /\ error = ""
  /\ result = NoResult
  /\ runs = 0
  /\ failure = NoFailure
  /\ prev_source = NoSource
  /\ same_source = FALSE
  /\ rows_read = 0

\* generate_hash is not being applied on its own.
HashIdle ==
  /\ h_row_a = SrcRow(NULL, NULL, NULL, NULL)
  /\ h_row_b = SrcRow(NULL, NULL, NULL, NULL)
  /\ h_attrs = <<>>
  /\ h_digest_a = <<>>
  /\ h_digest_b = <<>>
  /\ h_done = FALSE

Init == InitWith(<<>>) /\ HashIdle

InitCorrupt == InitWith(CorruptHistory) /\ HashIdle

\* The locals of the loop are gone once the function is left.
ClearLocals ==
  /\ idx' = 0
  /\ tgt_record' = NoRecord
  /\ new_count' = 0 /\ changed_count' = 0 /\ unchanged_count' = 0

\* Rows of the transaction's view that are not on disk as they are.
Uncommitted ==
  Cardinality({ i \in DOMAIN work : i \notin DOMAIN history \/ work[i] # history[i] })

\* The run fails with `e`.
Raise(e) ==
  /\ pc' = "failed"
  /\ error' = e
  /\ failure' = [at |-> pc, row |-> idx, writes |-> Uncommitted]

\* Lines 79-87: the configuration file is missing or is not JSON.
LoadConfigFails ==
  /\ Idle
  /\ runs < MaxRuns
  /\ runs' = runs + 1
  /\ prev_source' = (IF pc = "returned"
                     THEN [returned |-> TRUE, rows |-> source_rows]
                     ELSE NoSource)
  /\ source_rows' = <<>>
  /\ current_time' = 0
  /\ same_source' = FALSE
  /\ pre' = history
  /\ work' = history
  /\ connected' = "no"
  /\ result' = NoResult
  /\ ClearLocals
  /\ conf' = NoConf
  /\ Raise("FileNotFoundError")
  /\ UNCHANGED <<history, pk, changing_attrs, clock, rows_read, hvars>>

\* Lines 79-98: load the configuration, validate it, read its two fields.
LoadConfig(c) ==
  /\ Idle
  /\ runs < MaxRuns
  /\ runs' = runs + 1
  /\ prev_source' = (IF pc = "returned"
                     THEN [returned |-> TRUE, rows |-> source_rows]
                     ELSE NoSource)
  /\ source_rows' = <<>>
  /\ current_time' = 0
  /\ same_source' = FALSE
  /\ pre' = history
  /\ work' = history
  /\ connected' = "no"
  /\ result' = NoResult
  /\ ClearLocals
  /\ conf' = c
  /\ IF ConfigInvalid(c)
     THEN /\ Raise("KeyError")
          /\ UNCHANGED <<pk, changing_attrs>>
     ELSE /\ pk' = (IF "primary_key" \in DOMAIN c THEN c.primary_key ELSE "")
          /\ changing_attrs' =
               (IF "changing_attributes" \in DOMAIN c
                THEN c.changing_attributes ELSE <<>>)
          /\ pc' = "connect"
          /\ error' = ""
          /\ failure' = NoFailure
  /\ UNCHANGED <<history, clock, rows_read, hvars>>

\* Lines 104-108: sqlite3.connect.
Connect ==
  /\ pc = "connect"
  /\ connected' = "open"
  /\ pc' = "extract"
  /\ UNCHANGED <<history, work, pre, conf, pk, changing_attrs, source_rows, idx,
                 tgt_record, current_time, clock, new_count, changed_count,
                 unchanged_count, error, result, runs, failure, prev_source, rows_read,
                 same_source, hvars>>

\* Lines 109-111: sqlite3.connect raises.
ConnectFails ==
  /\ pc = "connect"
  /\ connected' = "failed"
  /\ Raise("sqlite3.Error")
  /\ UNCHANGED <<history, work, pre, conf, pk, changing_attrs,
                 source_rows, idx, tgt_record, current_time, clock, new_count,
                 changed_count, unchanged_count, result, runs, prev_source, rows_read,
                 same_source, hvars>>

\* Lines 117-136: read the source snapshot, take the run timestamp, zero the
\* counters. The wall clock has a resolution of one second and does not go back.
Extract(rows, now) ==
  /\ pc = "extract"
  /\ now \in {clock, clock + 1}
  /\ rows_read + Len(rows) <= MaxRowsRead
  /\ rows_read' = rows_read + Len(rows)
  /\ source_rows' = rows
  /\ same_source' = (prev_source.returned /\ rows = prev_source.rows)
  /\ prev_source' = NoSource
  /\ current_time' = now
  /\ clock' = now
  /\ new_count' = 0 /\ changed_count' = 0 /\ unchanged_count' = 0
  /\ idx' = 1
  /\ pc' = IF Len(rows) = 0 THEN "commit" ELSE "loop"
  /\ UNCHANGED <<history, work, pre, conf, pk, changing_attrs, connected,
                 tgt_record, error, result, runs, failure, hvars>>

\* Lines 121-124: the SELECT on the source raises; the connection is closed.
ExtractFails ==
  /\ pc = "extract"
  /\ connected' = "closed"
  /\ Raise("sqlite3.Error")
  /\ UNCHANGED <<history, work, pre, conf, pk, changing_attrs, source_rows, idx,
                 tgt_record, current_time, clock, new_count, changed_count,
                 unchanged_count, result, runs, prev_source, rows_read, same_source,
                 hvars>>

\* idx moves to the next source row, or the loop ends.
NextRow ==
  /\ idx' = idx + 1
  /\ pc' = IF idx = Len(source_rows) THEN "commit" ELSE "loop"

\* Lines 140-141: src_row[pk] or row[attr] in generate_hash raises KeyError. The
\* exception is not an sqlite3.Error: it leaves the function past the except
\* clause, and the connection is dropped with its transaction uncommitted.
LookupKeyError ==
  /\ pc = "loop"
  /\ pk \notin DOMAIN src_row \/ MissingAttr(src_row, changing_attrs)
  /\ work' = Rollback(history, work)
  /\ ClearLocals
  /\ Raise("KeyError")
  /\ UNCHANGED <<history, pre, conf, pk, changing_attrs, connected,
                 source_rows, current_time, clock, result, runs, prev_source, rows_read,
                 same_source, hvars>>

\* Lines 140-148: key and hash of the row, then the lookup of its current
\* version in the history.
Lookup ==
  /\ pc = "loop"
  /\ pk \in DOMAIN src_row
  /\ ~MissingAttr(src_row, changing_attrs)
  /\ tgt_record' \in FetchOne(work, pk, src_pk_val)
  /\ pc' = "branch"
  /\ UNCHANGED <<history, work, pre, conf, pk, changing_attrs, connected,
                 source_rows, idx, current_time, clock, new_count,
                 changed_count, unchanged_count, error, result, runs,
                 failure, prev_source, rows_read, same_source, hvars>>

\* Lines 153-163, NEW: no current version, the row is inserted.
InsertNew ==
  /\ pc = "branch"
  /\ tgt_record = NoRecord
  /\ work' = InsertRow(work, src_row, src_hash, current_time)
  /\ new_count' = new_count + 1
  /\ NextRow
  /\ UNCHANGED <<history, pre, conf, pk, changing_attrs, connected, source_rows,
                 tgt_record, current_time, clock, changed_count,
                 unchanged_count, error, result, runs, failure, prev_source, rows_read,
                 same_source, hvars>>

\* Lines 168-174, CHANGED (A): the current version is closed.
ExpireOld ==
  /\ pc = "branch"
  /\ tgt_record # NoRecord
  /\ tgt_record[1] # src_hash
  /\ work' = ExpireRows(work, pk, src_pk_val, current_time)
  /\ pc' = "insert"
  /\ UNCHANGED <<history, pre, conf, pk, changing_attrs, connected, source_rows,
                 idx, tgt_record, current_time, clock, new_count, changed_count,
                 unchanged_count, error, result, runs, failure, prev_source, rows_read,
                 same_source, hvars>>

\* Lines 176-186, CHANGED (B): the new version is inserted.
InsertVersion ==
  /\ pc = "insert"
  /\ work' = InsertRow(work, src_row, src_hash, current_time)
  /\ changed_count' = changed_count + 1
  /\ NextRow
  /\ UNCHANGED <<history, pre, conf, pk, changing_attrs, connected, source_rows,
                 tgt_record, current_time, clock, new_count, unchanged_count,
                 error, result, runs, failure, prev_source, rows_read, same_source, hvars>>

\* Lines 191-192, NO CHANGE.
Unchanged ==
  /\ pc = "branch"
  /\ tgt_record # NoRecord
  /\ tgt_record[1] = src_hash
  /\ unchanged_count' = unchanged_count + 1
  /\ NextRow
  /\ UNCHANGED <<history, work, pre, conf, pk, changing_attrs, connected,
                 source_rows, tgt_record, current_time, clock, new_count,
                 changed_count, error, result, runs, failure, prev_source, rows_read, same_source,
                 hvars>>

\* A statement of the loop is about to run: the lookup, the update or an insert.
AtStatement ==
  \/ /\ pc = "loop"
     /\ pk \in DOMAIN src_row
     /\ ~MissingAttr(src_row, changing_attrs)
  \/ /\ pc = "branch"
     /\ tgt_record # NoRecord => tgt_record[1] # src_hash
  \/ pc = "insert"

\* Lines 194-198: a statement of the loop raises sqlite3.Error; the transaction
\* is rolled back and the connection closed.
ProcessingFails ==
  /\ AtStatement
  /\ history' = Rollback(history, work)
  /\ work' = Rollback(history, work)
  /\ connected' = "closed"
  /\ ClearLocals
  /\ Raise("sqlite3.Error")
  /\ UNCHANGED <<pre, conf, pk, changing_attrs, source_rows, current_time,
                 clock, result, runs, prev_source, rows_read, same_source, hvars>>

\* Lines 204-239: commit, close, and return the summary.
Commit ==
  /\ pc = "commit"
  /\ history' = work
  /\ connected' = "closed"
  /\ result' = Summary
  /\ ClearLocals
  /\ pc' = "returned"
  /\ UNCHANGED <<work, pre, conf, pk, changing_attrs, source_rows,
                 current_time, clock, error, runs, failure, prev_source, rows_read, same_source,
                 hvars>>

\* The failed commit caught and not raised again: the run goes on to its
\* summary.
CommitFails_Swallowed ==
  /\ pc = "commit"
  /\ history' = Rollback(history, work)
  /\ connected' = "closed"
  /\ result' = Summary
  /\ ClearLocals
  /\ pc' = "returned"
  /\ UNCHANGED <<work, pre, conf, pk, changing_attrs, source_rows,
                 current_time, clock, error, runs, failure, prev_source,
                 rows_read, same_source, hvars>>

\* Lines 207-211: the commit raises; rollback and close.
CommitFails ==
  /\ pc = "commit"
  /\ history' = Rollback(history, work)
  /\ work' = Rollback(history, work)
  /\ connected' = "closed"
  /\ ClearLocals
  /\ Raise("sqlite3.Error")
  /\ UNCHANGED <<pre, conf, pk, changing_attrs, source_rows, current_time,
                 clock, result, runs, prev_source, rows_read, same_source, hvars>>

Next ==
  \/ LoadConfigFails
  \/ \E c \in Configs : LoadConfig(c)
  \/ Connect
  \/ ConnectFails
  \/ \E rows \in Snapshots(MaxRowsRead - rows_read), now \in {clock, clock + 1} :
       Extract(rows, now)
  \/ ExtractFails
  \/ LookupKeyError
  \/ Lookup
  \/ InsertNew
  \/ ExpireOld
  \/ InsertVersion
  \/ Unchanged
  \/ ProcessingFails
  \/ Commit
  \/ CommitFails

Spec == Init /\ [][Next]_vars

\* The pipeline started on a history relation that is already corrupted.
SpecCorrupt == InitCorrupt /\ [][Next]_vars

\* ------------------------------------------------------------------ generate_hash alone
\* Two records and a monitored-attribute list.
InitHash ==
  /\ InitWith(<<>>)
  /\ h_row_a \in HashRows
  /\ h_row_b \in HashRows
  /\ h_attrs \in HashAttrLists
  /\ h_digest_a = <<>>
  /\ h_digest_b = <<>>
  /\ h_done = FALSE

\* generate_hash(row, attributes) for each of the two records.
ApplyHash ==
  /\ ~h_done
  /\ h_digest_a' = generate_hash(h_row_a, h_attrs)
  /\ h_digest_b' = generate_hash(h_row_b, h_attrs)
  /\ h_done' = TRUE
  /\ UNCHANGED <<history, work, pre, conf, pk, changing_attrs, connected,
                 source_rows, idx, tgt_record, current_time, clock, new_count,
                 changed_count, unchanged_count, pc, error, result, runs,
                 failure, prev_source, rows_read, same_source, h_row_a, h_row_b, h_attrs>>

NextHash == ApplyHash

SpecHash == InitHash /\ [][NextHash]_vars

\* ------------------------------------------------------------------ properties
\* The business-key column of the history relation.
KeyOf(row) == row["id"]

CurrentOfKey(tbl, k) ==
  { j \in DOMAIN tbl : KeyOf(tbl[j]) = k /\ tbl[j].is_current = 1 }

\* C1: starting from an empty history, after any sequence of successful runs
\* every business-key value present in the history has exactly one row with
\* is_current = 1.
C1_CurrentUniqueness ==
  \A i \in DOMAIN history :
    Cardinality(CurrentOfKey(history, KeyOf(history[i]))) = 1

\* The version `new` is the version `old` but for row_end_date and is_current.
SameVersion(old, new) ==
  [new EXCEPT !.row_end_date = old.row_end_date, !.is_current = old.is_current] = old

\* C2: every history row that exists before a run exists after it, at the same
\* place, with the same non-audit fields, row_hash and row_start_date; its
\* row_end_date and is_current differ only if it was current before the run. No
\* row is deleted and no closed row is changed.
C2_HistoryImmutable ==
  /\ Len(history) >= Len(pre)
  /\ \A i \in DOMAIN pre :
       /\ SameVersion(pre[i], history[i])
       /\ pre[i].is_current = 0 => history[i] = pre[i]

\* A run has returned that closed a current row and left a closed row alone.
C2_Witness ==
  /\ pc = "returned"
  /\ \E i \in DOMAIN pre : pre[i].is_current = 1 /\ history[i].is_current = 0
  /\ \E j \in DOMAIN pre : pre[j].is_current = 0 /\ history[j] = pre[j]

\* C3: a run that follows a successful run on the same source snapshot writes
\* nothing and reports new_count = 0, changed_count = 0 and
\* unchanged_count = total_count.
C3_Idempotent ==
  (pc = "returned" /\ same_source) =>
    /\ history = pre
    /\ result.new_count = 0
    /\ result.changed_count = 0
    /\ result.unchanged_count = result.total_count

\* C4: a run that fails, at whatever statement of whatever row or at the
\* commit, leaves the history on disk as it was before the run; the history on
\* disk differs from the one before the run only once the run has committed.
C4_RollbackAtomic ==
  pc # "returned" => history = pre

\* A run failed on sqlite3.Error in the middle of a CHANGED row, after the
\* update and before the insert, and discarded row writes.
C4_Witness ==
  /\ pc = "failed"
  /\ error = "sqlite3.Error"
  /\ failure # NoFailure
  /\ failure.at = "insert"
  /\ failure.row = 2
  /\ failure.writes >= 2
  /\ history = pre

\* C5: when a source row is processed whose key has more than one current row
\* in the history, the run fails at the lookup: it never goes on to classify
\* the row against one of them.
C5_FailsOnTwoCurrent ==
  pc = "branch" => Cardinality(CurrentRows(work, pk, src_pk_val)) <= 1

\* The source snapshot has a row whose business key is NULL.
HasNullKey(rows) ==
  \E i \in DOMAIN rows : rows[i][pk] = NULL

\* C6: a run whose source snapshot has a row with a NULL business key does not
\* return a summary, and no history row has a NULL key.
C6_NullKeyAborts ==
  /\ pc = "returned" => ~HasNullKey(source_rows)
  /\ \A i \in DOMAIN history : KeyOf(history[i]) # NULL

\* Two rows of the source snapshot have the same (non-NULL) business key.
HasDuplicateKey(rows) ==
  \E i, j \in DOMAIN rows :
    i # j /\ rows[i][pk] # NULL /\ rows[i][pk] = rows[j][pk]

\* C7: a run whose source snapshot has two rows with the same business key does
\* not return a summary.
C7_DuplicateKeyFails ==
  pc = "returned" => ~HasDuplicateKey(source_rows)

\* The configuration object lacks primary_key or lacks changing_attributes.
LacksRequiredField(c) ==
  {"primary_key", "changing_attributes"} \ DOMAIN c # {}

\* C8: a run whose configuration lacks primary_key or changing_attributes has
\* failed with KeyError without opening a connection, and the history on disk
\* and the locals of the loop are as before the run.
C8_ConfigCheckedFirst ==
  (conf \in Configs /\ LacksRequiredField(conf)) =>
    /\ pc = "failed"
    /\ error = "KeyError"
    /\ connected = "no"
    /\ idx = 0
    /\ history = pre

\* A second run failed on a configuration without changing_attributes, over a
\* history that the first run filled.
C8_Witness ==
  /\ pc = "failed"
  /\ conf = [primary_key |-> "id"]
  /\ runs = 2
  /\ Len(history) > 0
  /\ connected = "no"

\* The configuration names an attribute the source relation does not have.
SchemaMismatch(c) ==
  \/ c.primary_key \notin SourceSchema
  \/ \E i \in DOMAIN c.changing_attributes :
       c.changing_attributes[i] \notin SourceSchema

\* C9: a run whose configuration names a primary key or a monitored attribute
\* that the source relation does not have never returns a summary, whatever the
\* source snapshot, and leaves the history on disk as it was.
C9_SchemaMismatchFails ==
  (conf \in Configs /\ ~LacksRequiredField(conf) /\ SchemaMismatch(conf)) =>
    /\ pc # "returned"
    /\ history = pre

\* C10: generate_hash gives two records the same digest exactly when they hold
\* equal values for every monitored attribute.
C10_DigestEqualIffValuesEqual ==
  h_done =>
    ((h_digest_a = h_digest_b) <=>
       (\A i \in DOMAIN h_attrs : h_row_a[h_attrs[i]] = h_row_b[h_attrs[i]]))

\* The rows of `tbl` that the run in progress inserted.
InsertedRows(tbl) == { i \in DOMAIN tbl : i > Len(pre) }

\* The rows of `tbl` that the run in progress closed.
ClosedRows(tbl) ==
  { i \in DOMAIN tbl :
      /\ tbl[i].is_current = 0
      /\ i \in DOMAIN pre => pre[i].is_current = 1 }

\* C11: within one run, every history row the run inserted has row_start_date
\* equal to the run's current_time and every row it closed has row_end_date
\* equal to it, in the transaction and on disk, whatever the rows and their order.
C11_SingleRunTimestamp ==
  \A tbl \in {work, history} :
    /\ \A i \in InsertedRows(tbl) : tbl[i].row_start_date = current_time
    /\ \A i \in ClosedRows(tbl) : tbl[i].row_end_date = current_time

\* A run has returned that inserted two rows and closed an older one, at a
\* timestamp later than the older row's.
C11_Witness ==
  /\ pc = "returned"
  /\ Cardinality(InsertedRows(history)) = 2
  /\ \E i \in ClosedRows(history) :
       i \in DOMAIN pre /\ history[i].row_start_date < current_time

\* No business key has two rows of `tbl` with is_current = 1.
AtMostOneCurrent(tbl) ==
  \A i \in DOMAIN tbl : Cardinality(CurrentOfKey(tbl, KeyOf(tbl[i]))) <= 1

\* C12: if no key had two current rows when the run started, none has in any
\* state between the writes of the run: the old version is closed before the
\* new one is inserted.
C12_NoTwoCurrentBetweenWrites ==
  AtMostOneCurrent(pre) => AtMostOneCurrent(work)

\* The history row that the pipeline builds from source row R at time t.
VersionOf(R, t) ==
  [id |-> R.id, product_name |-> R.product_name, price |-> R.price,
   region |-> R.region, row_hash |-> generate_hash(R, changing_attrs),
   row_start_date |-> t, row_end_date |-> expiry_time, is_current |-> 1]

\* The source row at idx is about to be written or counted, and the step taken
\* is not a failure of the run.
RowStep == pc = "branch" /\ pc' # "failed"

\* C13: when the row being processed has no current row of its key in the
\* history, the step inserts exactly one row, built from the source row with
\* its digest, row_start_date = current_time, row_end_date = the sentinel and
\* is_current = 1, changes no existing row, and adds one to new_count.
C13_NewStep ==
  [][(RowStep /\ CurrentOfKey(work, src_pk_val) = {}) =>
       /\ work' = Append(work, VersionOf(src_row, current_time))
       /\ new_count' = new_count + 1
       /\ changed_count' = changed_count
       /\ unchanged_count' = unchanged_count
       /\ history' = history]_vars

\* A row was inserted as NEW, as the second row of a run, beside an older row
\* of another key that is left as it was.
C13_Witness ==
  /\ new_count = 1
  /\ changed_count = 0
  /\ Len(pre) = 1
  /\ Len(work) = 2
  /\ work[1] = pre[1]
  /\ work[2] = VersionOf(source_rows[1], current_time)
  /\ KeyOf(work[1]) # KeyOf(work[2])

\* Row i of tbl closed at time t.
ClosedAt(tbl, i, t) ==
  [tbl EXCEPT ![i] = [id |-> tbl[i].id, product_name |-> tbl[i].product_name,
                      price |-> tbl[i].price, region |-> tbl[i].region,
                      row_hash |-> tbl[i].row_hash,
                      row_start_date |-> tbl[i].row_start_date,
                      row_end_date |-> t, is_current |-> 0]]

\* The key of the source row at idx has one current row, whose digest differs
\* from the source row's.
ChangedCase ==
  /\ Cardinality(CurrentOfKey(work, src_pk_val)) = 1
  /\ \A j \in CurrentOfKey(work, src_pk_val) :
       work[j].row_hash # VersionOf(src_row, current_time).row_hash

\* The first write of the CHANGED step: the one current row of the key is
\* closed at current_time and every other row is left as it is.
ChangedStepCloses ==
  (RowStep /\ ChangedCase) =>
    /\ pc' = "insert"
    /\ \A j \in CurrentOfKey(work, src_pk_val) :
         work' = ClosedAt(work, j, current_time)
    /\ history' = history

\* The second write of the CHANGED step: one row built from the source row is
\* appended as current and changed_count grows by one.
ChangedStepInserts ==
  (pc = "insert" /\ pc' # "failed") =>
    /\ work' = Append(work, VersionOf(src_row, current_time))
    /\ changed_count' = changed_count + 1
    /\ new_count' = new_count
    /\ unchanged_count' = unchanged_count
    /\ history' = history

\* C14: when the row being processed has a current row of its key whose digest
\* differs from its own, that one row gets row_end_date = current_time and
\* is_current = 0, one row built from the source row is inserted as current,
\* changed_count grows by one, and no row of another key is touched.
C14_ChangedStep ==
  [][ChangedStepCloses /\ ChangedStepInserts]_vars

\* The same, for source rows whose key is not NULL.
C14_ChangedStepNonNull ==
  [][(pc = "branch" /\ src_pk_val # NULL => ChangedStepCloses)
     /\ ChangedStepInserts]_vars

\* C15: on disk, a row is current exactly when its row_end_date is the
\* sentinel '9999-12-31 23:59:59'; a row that is not current carries the
\* timestamp of the run that closed it: current_time for a row closed by the
\* last run, and for a row closed earlier the row_end_date it had then, which
\* is a past reading of the clock.
C15_SentinelMatchesFlag ==
  \A i \in DOMAIN history :
    /\ history[i].is_current \in {0, 1}
    /\ history[i].is_current = 1 <=> history[i].row_end_date = expiry_time
    /\ history[i].is_current = 0 =>
         /\ history[i].row_end_date <= clock
         /\ i \in ClosedRows(history) => history[i].row_end_date = current_time
         /\ i \notin ClosedRows(history) =>
              history[i].row_end_date = pre[i].row_end_date

\* A committed run has closed a version written by an earlier run and left a
\* current version of the same key.
C15_Witness ==
  /\ pc = "returned"
  /\ \E i, j \in DOMAIN history :
       /\ history[i].is_current = 0
       /\ history[i].row_end_date = current_time
       /\ history[i].row_start_date < history[i].row_end_date
       /\ history[j].is_current = 1
       /\ history[j].row_end_date = expiry_time
       /\ KeyOf(history[i]) = KeyOf(history[j])

C16_ClosedOnDiskBefore ==
  result # NoResult =>
    Cardinality(ClosedRows(history) \cap DOMAIN pre) = result.changed_count

\* History row H holds the monitored values and the digest of source row R.
Reflects(H, R) ==
  /\ \A n \in 1..Len(changing_attrs) :
       H[changing_attrs[n]] = R[changing_attrs[n]]
  /\ H.row_hash = generate_hash(R, changing_attrs)

\* C17: after a successful run, every row of the run's source snapshot has a
\* current history row of its key, and that row holds the source row's
\* monitored values and its digest: no source row is left with a stale
\* current version.
C17_CurrentReflectsSource ==
  pc = "returned" =>
    \A n \in DOMAIN source_rows :
      /\ CurrentOfKey(history, KeyOf(source_rows[n])) # {}
      /\ \A j \in CurrentOfKey(history, KeyOf(source_rows[n])) :
           Reflects(history[j], source_rows[n])

\* Two rows have the same digest and different monitored values.
Collides(R, Q) ==
  /\ generate_hash(R, changing_attrs) = generate_hash(Q, changing_attrs)
  /\ \E n \in 1..Len(changing_attrs) : R[changing_attrs[n]] # Q[changing_attrs[n]]

\* The snapshot has no NULL key, no key twice, and no row whose digest collides
\* with the current version of its key.
CleanSnapshot(rows) ==
  /\ ~HasNullKey(rows)
  /\ ~HasDuplicateKey(rows)
  /\ \A n \in DOMAIN rows : \A j \in CurrentOfKey(pre, KeyOf(rows[n])) :
       ~Collides(rows[n], pre[j])

\* The same as C17, for snapshots that are clean over a history whose keys
\* are not NULL.
C17_CurrentReflectsCleanSource ==
  (/\ pc = "returned"
   /\ CleanSnapshot(source_rows)
   /\ \A i \in DOMAIN pre : KeyOf(pre[i]) # NULL) =>
    \A n \in DOMAIN source_rows :
      /\ Cardinality(CurrentOfKey(history, KeyOf(source_rows[n]))) = 1
      /\ \A j \in CurrentOfKey(history, KeyOf(source_rows[n])) :
           Reflects(history[j], source_rows[n])

\* The half-open intervals [row_start_date, row_end_date) of two rows share an
\* instant.
Overlap(H, G) ==
  /\ H.row_start_date < H.row_end_date
  /\ G.row_start_date < G.row_end_date
  /\ H.row_start_date < G.row_end_date
  /\ G.row_start_date < H.row_end_date

\* The rows of key k in tbl form a chain: no two of them are valid at the same
\* instant, none ends before it starts, and every closed one ends where a later
\* version of the key starts.
ChainOfKey(tbl, k) ==
  \A i \in DOMAIN tbl : KeyOf(tbl[i]) = k =>
    /\ tbl[i].row_start_date <= tbl[i].row_end_date
    /\ \A j \in DOMAIN tbl :
         (j # i /\ KeyOf(tbl[j]) = k) => ~Overlap(tbl[i], tbl[j])
    /\ tbl[i].is_current = 0 =>
         \E j \in DOMAIN tbl :
           /\ j > i
           /\ KeyOf(tbl[j]) = k
           /\ tbl[j].row_start_date = tbl[i].row_end_date

\* C18: on disk, for every business key, the validity intervals
\* [row_start_date, row_end_date) of its rows do not overlap, every row has
\* row_start_date <= row_end_date, and every closed row's row_end_date is the
\* row_start_date of the version that superseded it.
C18_TemporalChain ==
  \A i \in DOMAIN history : ChainOfKey(history, KeyOf(history[i]))

\* The same, for the business keys that are not NULL.
C18_TemporalChainNonNull ==
  \A i \in DOMAIN history :
    KeyOf(history[i]) # NULL => ChainOfKey(history, KeyOf(history[i]))

\* C19: a summary is returned only by the step that commits the run's
\* transaction, which puts the transaction's rows on disk and raises nothing;
\* a step that fails the run, in row processing or at the commit, returns no
\* summary and raises an error to the caller.
C19_ReportOnlyAfterCommit ==
  [][/\ result' # NoResult =>
          /\ pc = "commit"
          /\ pc' = "returned"
          /\ history' = work
          /\ error' = ""
     /\ pc' = "failed" =>
          /\ result' = NoResult
          /\ error' # ""]_vars

\* A run has failed at its commit with rows written in the transaction: it has
\* no summary and an error, and the rows are not on disk.
C19_Witness ==
  /\ pc = "failed"
  /\ failure # NoFailure
  /\ failure.at = "commit"
  /\ failure.writes >= 2
  /\ result = NoResult
  /\ error = "sqlite3.Error"
  /\ Len(history) = Len(pre)

====
